---- MODULE Spec2Model ----
(***************************************************************************)
(* A model of the nomen indexing core: the persistence layer (db/mod.rs),  *)
(* the blockchain indexer (subcommands/index_blockchain.rs), the create    *)
(* event indexer (subcommands/index/events/create.rs) and the scheduler    *)
(* loop (subcommands/server.rs).                                           *)
(*                                                                         *)
(* Tables are sets of rows.  A nullable column holds a set: {} is SQL NULL *)
(* and {v} is the value v.  Column values that the code renders as hex     *)
(* strings (nsid, blockhash, txid, pubkey) are kept as the values they are *)
(* the hex of; hex is injective, so joins and keys are unaffected.         *)
(***************************************************************************)
EXTENDS Integers, Sequences, FiniteSets, TLC

VARIABLES
    network,        \* Config: the configured bitcoin network
    config,         \* Config: the server options given on the command line and in the config file
    chain,          \* the active chain seen through the RPC adapter: blocks at heights 1..Len(chain)
    relay,          \* the events the relay serves
    blockchain,     \* table blockchain (nsid PRIMARY KEY, blockhash, txid, vout, height)
    name_nsid,      \* table name_nsid (name PRIMARY KEY, nsid, root, parent, pubkey)
    create_events,  \* table create_events (nsid PRIMARY KEY, pubkey, created_at, event_id, name, children)
    records_events, \* table records_events, unique on (nsid, pubkey)
    pc,             \* the scheduler loop's position (server.rs indexer)
    start_height,   \* index_blockchain's local `height` of the latest run: {} before any run
    early,          \* history: events the relay served at the end of a create run while unanchored
    first_create,   \* history: per nsid, the first valid create event the create indexer processed
    delivered,      \* history: the records events handed to insert_records_event, in order
    scanned,        \* history: the output scripts handed to the body of the indexer's output loop, in order
    transport_errors,\* history: the number of RPC and relay transport errors so far
    initialize_call,\* db::initialize: the call in progress, and history of the calls made
    schema,         \* table schema (version): the values inserted, in order
    objects,        \* the tables, indexes and views that exist: indices in MIGRATIONS of their statements
    record_data,    \* name record: the key=value arguments given to the command
    sent_records,   \* name record: the records map of the event the command sent, {} before it ran
    authored,       \* history: the events the authoring commands built and sent, with the name each was given
    details_call,   \* namespace::details: the call in progress: its position, the results read so far, name_nsid as the call found it
    new_call,       \* name new (name/new.rs): the command's position and what it has done so far
    tx_call         \* the transaction-building command in progress (create_unsigned_tx / create_new_tx)

vars == <<network, config, chain, relay, blockchain, name_nsid, create_events, records_events,
          pc, start_height, early, first_create, delivered, scanned, transport_errors, initialize_call, schema, objects, record_data, sent_records, authored, details_call, new_call, tx_call>>

(***************************************************************************)
(* Bounds of the model.                                                    *)
(***************************************************************************)
MaxChain == 2
MaxRelay == 2
MaxDelivered == 3

(***************************************************************************)
(* SQL values.                                                             *)
(***************************************************************************)
NULL == {}
Some(v) == {v}

Max(S) == CHOOSE x \in S : \A y \in S : y <= x

(***************************************************************************)
(* Identifier algebra.  Hash160 is modelled as an injective map into small *)
(* integers (the spec's assumption of collision freedom); an Nsid is the   *)
(* 20-byte value of Hash160(name || pubkey).                               *)
(***************************************************************************)
Names == {"alice", "bob"}
Pubkeys == {"pk1", "pk2"}

NsidLen == 20

Hash160(name, pubkey) ==
    (IF name = "alice" THEN 16 ELSE 32) + (IF pubkey = "pk1" THEN 1 ELSE 2)

NsidBytes(code) == [i \in 1..NsidLen |-> code]

Nsid(name, pubkey) == NsidBytes(Hash160(name, pubkey))

(***************************************************************************)
(* Config (config/cfg.rs).                                                 *)
(***************************************************************************)
Networks == {"bitcoin", "testnet", "signet", "regtest"}

starting_block_height(net) ==
    CASE net = "bitcoin" -> 790500
      [] net = "signet" -> 143500
      [] OTHER -> 0

\* The server options: indexer_delay of the command line, indexer_delay and
\* confirmations of the config file's [server] section.  {} is an option
\* that is not given.
NoConfig ==
    [cli_indexer_delay |-> {}, file_indexer_delay |-> {}, file_confirmations |-> {}]

Configs ==
    [cli_indexer_delay : {{}, {5}}, file_indexer_delay : {{}, {10}},
     file_confirmations : {{}, {1}}]

\* cli.indexer_delay.or(file.server.indexer_delay).unwrap_or(30)
server_indexer_delay(cfg) ==
    IF cfg.cli_indexer_delay # {} THEN CHOOSE d \in cfg.cli_indexer_delay : TRUE
    ELSE IF cfg.file_indexer_delay # {} THEN CHOOSE d \in cfg.file_indexer_delay : TRUE
    ELSE 30

\* file.server.confirmations.unwrap_or(3)
confirmations(cfg) ==
    IF cfg.file_confirmations # {} THEN CHOOSE c \in cfg.file_confirmations : TRUE
    ELSE 3

(***************************************************************************)
(* The chain.  A block is [hash, txs]; a transaction is [txid, output],    *)
(* output being the sequence of script_pubkey byte strings.                *)
(***************************************************************************)
OP_RETURN == 106

GunPrefix == <<103, 117, 110>>

\* "gun" 0x00 0x00 <nsid>, as subcommands/create_new_tx.rs builds it, behind
\* the OP_RETURN opcode and the push-length byte.
GunScript(nsid) == <<OP_RETURN, 3 + 2 + Len(nsid)>> \o GunPrefix \o <<0, 0>> \o nsid

\* a pay-to-pubkey-hash style output: not an OP_RETURN
PayScript == <<118, 169>>

N1 == Nsid("alice", "pk1")
N2 == Nsid("bob", "pk2")

\* The transaction lists a mined block may carry: a coinbase only; one anchor
\* for N1 at vout 1; N1 three times (two transactions, and twice in one
\* transaction); one anchor for N2 in the second transaction.
BlockTemplates ==
    << << <<PayScript>> >>,
       << <<PayScript, GunScript(N1)>> >>,
       << <<GunScript(N1)>>, <<PayScript, GunScript(N1), GunScript(N1)>> >>,
       << <<PayScript>>, <<GunScript(N2)>> >> >>

BlockHash(height, t) == <<"block", height, t>>
TxId(height, i) == <<"tx", height, i>>

MakeBlock(height, t) ==
    [hash |-> BlockHash(height, t),
     height |-> height,
     tx |-> [i \in 1..Len(BlockTemplates[t]) |->
                [txid |-> TxId(height, i), output |-> BlockTemplates[t][i]]]]

(***************************************************************************)
(* Persistence layer (db/mod.rs).                                          *)
(***************************************************************************)
\* sqlx binds positional parameters in order; a parameter of the statement
\* that no bind covers is NULL.
Param(binds, i) == IF i <= Len(binds) THEN Some(binds[i]) ELSE NULL

\* MIGRATIONS[0]: CREATE TABLE blockchain (nsid PRIMARY KEY, ...)
blockchain_no_pk(tbl, row) == FALSE
blockchain_pk_conflict(tbl, row) == \E r \in tbl : r.nsid = row.nsid

\* queries/insert_namespace.sql: the row (nsid, blockhash, txid, vout, height)
\* from the statement's five parameters, inserted if the nsid is absent and
\* silently ignored if it is present.
insert_namespace_sql(tbl, binds) ==
    LET row == [nsid |-> binds[1], blockhash |-> binds[2], txid |-> binds[3],
                vout |-> Param(binds, 4), height |-> Param(binds, 5)]
    IN  IF blockchain_pk_conflict(tbl, row)
        THEN [table |-> tbl, ok |-> TRUE]
        ELSE [table |-> tbl \cup {row}, ok |-> TRUE]

\* insert_namespace binds nsid, blockhash, txid and height; vout is not bound.
insert_namespace(tbl, nsid, blockhash, txid, vout, height) ==
    insert_namespace_sql(tbl, <<nsid, blockhash, txid, height>>)

\* SELECT COALESCE(MAX(height), 0) + 1 FROM blockchain
next_index_height(tbl) ==
    LET hs == UNION {r.height : r \in tbl}
    IN  (IF hs = {} THEN 0 ELSE Max(hs)) + 1

\* SELECT COUNT(*) FROM blockchain WHERE nsid = ?
namespace_exists(tbl, nsid) == Cardinality({r \in tbl : r.nsid = nsid}) # 0

(***************************************************************************)
(* Blockchain indexer (subcommands/index_blockchain.rs).  A run carries    *)
(* [table, status]: status "ok", "err" (an Err returned through `?`) or    *)
(* "panic".                                                                *)
(***************************************************************************)
starting_blockheight(net) ==
    IF net = "regtest" THEN [ok |-> TRUE, height |-> 1]
    ELSE [ok |-> FALSE, height |-> 0]

is_op_return(script) == Len(script) > 0 /\ script[1] = OP_RETURN

starts_with(b, prefix) ==
    Len(b) >= Len(prefix) /\ SubSeq(b, 1, Len(prefix)) = prefix

parse_gun_output(byte) ==
    IF Len(byte) >= 2 /\ byte[1] = 0 /\ byte[2] = 0
    THEN [ok |-> TRUE, data |-> SubSeq(byte, 3, Len(byte))]
    ELSE [ok |-> FALSE, data |-> <<>>]

\* What the indexer does with a payload that parsed: the row is handed to
\* insert_namespace with the coordinates of the output.
store_output(st, nsid, blockhash, txid, vout, height) ==
    LET res == insert_namespace(st.table, nsid, blockhash, txid, vout, height)
    IN  [table |-> res.table, status |-> IF res.ok THEN "ok" ELSE "err"]

\* The body of `for output in tx.output`: lines 22-31.
index_output(st, blockhash, txid, vout, height, script) ==
    IF st.status # "ok" THEN st
    ELSE IF ~is_op_return(script) THEN st
    ELSE IF Len(script) < 2 THEN [st EXCEPT !.status = "panic"]
    ELSE LET b == SubSeq(script, 3, Len(script))
         IN  IF ~starts_with(b, GunPrefix) THEN st
             ELSE LET parsed == parse_gun_output(SubSeq(b, 4, Len(b)))
                  IN  IF parsed.ok
                      THEN store_output(st, parsed.data, blockhash, txid, vout, height)
                      ELSE st

RECURSIVE scan_outputs(_, _, _, _, _)
scan_outputs(st, block, tx, output, i) ==
    IF i > Len(output) THEN st
    ELSE scan_outputs(index_output(st, block.hash, tx.txid, i - 1, block.height, output[i]),
                      block, tx, output, i + 1)

RECURSIVE scan_txs(_, _, _)
scan_txs(st, block, i) ==
    IF i > Len(block.tx) THEN st
    ELSE scan_txs(scan_outputs(st, block, block.tx[i], block.tx[i].output, 1), block, i + 1)

\* `while let Some(next_hash) = blockinfo.nextblockhash`: the block at the
\* tip has no next block and is not scanned.
RECURSIVE scan_blocks(_, _, _)
scan_blocks(st, ch, h) ==
    IF h >= Len(ch) \/ st.status # "ok" THEN st
    ELSE scan_blocks(scan_txs(st, ch[h], 1), ch, h + 1)

index_blockchain(net, ch, tbl) ==
    LET s == starting_blockheight(net)
    IN  IF ~s.ok THEN [table |-> tbl, status |-> "err", start |-> NULL]
        ELSE IF s.height > Len(ch)
             THEN [table |-> tbl, status |-> "err", start |-> Some(s.height)]
             ELSE LET st == scan_blocks([table |-> tbl, status |-> "ok"], ch, s.height)
                  IN  [table |-> st.table, status |-> st.status, start |-> Some(s.height)]

(***************************************************************************)
(* Nostr events.  `d` is the d tag's decoded nsid ({} when the tag is       *)
(* missing or is not 20 bytes of hex), `nom` the nom tag's name.           *)
(***************************************************************************)
CreateEvent(id, name, pubkey, d, created_at) ==
    [kind |-> "Name", id |-> id, pubkey |-> pubkey, created_at |-> created_at,
     d |-> d, nom |-> name, content |-> "[]"]

\* The create events a client may publish: an older and a newer event for N1,
\* a newer event for N2, a claim of the name alice by another key, an
\* event whose d tag is not the hash of its own name and key, and an event
\* with no usable d tag.
CreateEventUniverse ==
    { CreateEvent(1, "alice", "pk1", Some(N1), 1),
      CreateEvent(2, "alice", "pk1", Some(N1), 2),
      CreateEvent(4, "bob", "pk2", Some(N2), 2),
      CreateEvent(5, "alice", "pk2", Some(Nsid("alice", "pk2")), 2),
      CreateEvent(6, "alice", "pk2", Some(N1), 1),
      CreateEvent(7, "bob", "pk1", NULL, 1) }

RecordsEvent(id, name, pubkey, nsid, created_at, content) ==
    [kind |-> "Record", id |-> id, pubkey |-> pubkey, created_at |-> created_at,
     d |-> Some(nsid), nom |-> name, content |-> content]

\* The records events offered to the store: three for (N1, pk1) with growing
\* created_at, a second one at created_at 2, one for N1 by another key and
\* one for N2.
RecordsEventUniverse ==
    { RecordsEvent(11, "alice", "pk1", N1, 1, "{A:1}"),
      RecordsEvent(12, "alice", "pk1", N1, 2, "{A:2}"),
      RecordsEvent(13, "alice", "pk1", N1, 2, "{A:2b}"),
      RecordsEvent(14, "alice", "pk1", N1, 3, "{A:3}"),
      RecordsEvent(15, "alice", "pk2", N1, 1, "{B:1}"),
      RecordsEvent(16, "bob", "pk2", N2, 2, "{C:2}") }

(***************************************************************************)
(* Persistence layer: the event tables (db/mod.rs).                        *)
(***************************************************************************)
\* MIGRATIONS[2]: CREATE TABLE name_nsid (name PRIMARY KEY, ...)
name_nsid_pk_conflict(tbl, row) == \E r \in tbl : r.name = row.name

\* MIGRATIONS[5]: CREATE TABLE create_events (nsid PRIMARY KEY, ...)
create_events_no_pk(tbl, row) == FALSE
create_events_pk_conflict(tbl, row) == \E r \in tbl : r.nsid = row.nsid

\* MIGRATIONS[7]: CREATE UNIQUE INDEX ... ON records_events(nsid, pubkey)
records_events_no_unique(tbl, row) == {}
records_events_unique_conflict(tbl, row) ==
    {r \in tbl : r.nsid = row.nsid /\ r.pubkey = row.pubkey}

\* SELECT COALESCE(MAX(created_at), 0) from create_events
last_create_event_time(tbl) ==
    IF tbl = {} THEN 0 ELSE Max({r.created_at : r \in tbl})

\* SELECT COALESCE(MAX(created_at), 0) FROM records_events
last_records_time(tbl) ==
    IF tbl = {} THEN 0 ELSE Max({r.created_at : r \in tbl})

\* An insert that replaces the row of the nsid when there is one.
insert_create_event_sql_replace(tbl, row) ==
    {r \in tbl : r.nsid # row.nsid} \cup {row}

\* queries/insert_create_event.sql: inserts if the nsid is absent.
insert_create_event_sql(tbl, row) ==
    IF create_events_pk_conflict(tbl, row) THEN tbl ELSE tbl \cup {row}

insert_create_event(tbl, nsid, pubkey, created_at, event_id, name, children) ==
    insert_create_event_sql(tbl,
        [nsid |-> nsid, pubkey |-> pubkey, created_at |-> created_at,
         event_id |-> event_id, name |-> name, children |-> children])

\* queries/index_name_nsid.sql: inserts if the name is absent.
index_name_nsid_sql(tbl, row) ==
    IF name_nsid_pk_conflict(tbl, row) THEN tbl ELSE tbl \cup {row}

index_name_nsid(tbl, nsid, name, root, parent, pubkey) ==
    index_name_nsid_sql(tbl,
        [name |-> name, nsid |-> nsid, root |-> root, parent |-> parent,
         pubkey |-> pubkey])

\* An upsert keyed by (nsid, pubkey) that overwrites whatever the row holds.
insert_records_event_sql_overwrite(tbl, row) ==
    (tbl \ records_events_unique_conflict(tbl, row)) \cup {row}

\* queries/insert_records_event.sql: an upsert keyed by (nsid, pubkey) that
\* overwrites only when the new created_at strictly exceeds the row's.
insert_records_event_sql(tbl, row) ==
    LET old == records_events_unique_conflict(tbl, row)
    IN  IF old = {} THEN tbl \cup {row}
        ELSE IF \A r \in old : row.created_at > r.created_at
             THEN (tbl \ old) \cup {row}
             ELSE tbl

insert_records_event_drop_time(tbl, nsid, pubkey, created_at, event_id, name, records) ==
    insert_records_event_sql(tbl,
        [nsid |-> nsid, pubkey |-> pubkey, created_at |-> 0,
         event_id |-> event_id, name |-> name, records |-> records])

insert_records_event(tbl, nsid, pubkey, created_at, event_id, name, records) ==
    insert_records_event_sql(tbl,
        [nsid |-> nsid, pubkey |-> pubkey, created_at |-> created_at,
         event_id |-> event_id, name |-> name, records |-> records])

(***************************************************************************)
(* Create event indexer (subcommands/index/events/create.rs).  A run        *)
(* carries [name_nsid, create_events, first]: the two tables and the        *)
(* history of the first valid event processed per nsid.                     *)
(***************************************************************************)
\* EventData::from_event: Err when the event has no usable d tag.
from_event(event) ==
    IF event.d = NULL THEN [ok |-> FALSE]
    ELSE [ok |-> TRUE,
          ed |-> [event_id |-> event.id,
                  nsid |-> CHOOSE n \in event.d : TRUE,
                  pubkey |-> event.pubkey,
                  name |-> event.nom,
                  created_at |-> event.created_at,
                  raw_content |-> event.content,
                  children |-> <<>>]]

\* EventData::validate_create: a method of the parsed event alone (it takes
\* no database handle): the d tag's nsid is Hash160(name || pubkey).
validate_create(ed) == ed.nsid = Nsid(ed.name, ed.pubkey)

\* save_names: the name itself; the event carries no children.
save_names(tbl, ed) ==
    index_name_nsid(tbl, ed.nsid, ed.name, ed.nsid, Some(ed.nsid), ed.pubkey)

save_event(tbl, ed) ==
    insert_create_event(tbl, ed.nsid, ed.pubkey, ed.created_at, ed.event_id,
                        ed.name, ed.raw_content)

ValidCreate(event) == from_event(event).ok /\ validate_create(from_event(event).ed)

\* history: the first valid create event processed for each nsid
NoteFirst(first, ed) ==
    IF \E f \in first : f.nsid = ed.nsid THEN first
    ELSE first \cup {[nsid |-> ed.nsid, event_id |-> ed.event_id,
                      created_at |-> ed.created_at]}

\* The body of `for event in events` with every event saved, whatever
\* validate_create returned.
create_event_unvalidated(st, event) ==
    LET parsed == from_event(event)
    IN  IF ~parsed.ok THEN st
        ELSE [name_nsid |-> save_names(st.name_nsid, parsed.ed),
              create_events |-> save_event(st.create_events, parsed.ed),
              first |-> IF validate_create(parsed.ed)
                        THEN NoteFirst(st.first, parsed.ed) ELSE st.first]

\* The body of `for event in events`: lines 20-32.
create_event(st, event) ==
    LET parsed == from_event(event)
    IN  IF ~parsed.ok THEN st
        ELSE IF validate_create(parsed.ed)
             THEN [name_nsid |-> save_names(st.name_nsid, parsed.ed),
                   create_events |-> save_event(st.create_events, parsed.ed),
                   first |-> NoteFirst(st.first, parsed.ed)]
             ELSE st

\* The loop leaving at the first event that fails parsing or validation.
RECURSIVE create_until_invalid(_, _, _)
create_until_invalid(st, events, i) ==
    IF i > Len(events) THEN st
    ELSE IF ~ValidCreate(events[i]) THEN st
         ELSE create_until_invalid(create_event(st, events[i]), events, i + 1)

RECURSIVE create(_, _, _)
create(st, events, i) ==
    IF i > Len(events) THEN st
    ELSE create(create_event(st, events[i]), events, i + 1)

\* latest_events: the relay's events of kind Name with created_at >= since.
latest_events(served, since) ==
    {e \in served : e.kind = "Name" /\ e.created_at >= since}

\* The orders in which the relay client may return a set of events.
Orders(S) ==
    {f \in [1..Cardinality(S) -> S] : \A i, j \in 1..Cardinality(S) : f[i] = f[j] => i = j}

(***************************************************************************)
(* Records event indexer: every fetched records event is handed to          *)
(* insert_records_event.                                                    *)
(***************************************************************************)
records_event(tbl, event) ==
    LET parsed == from_event(event)
    IN  IF ~parsed.ok THEN tbl
        ELSE insert_records_event(tbl, parsed.ed.nsid, parsed.ed.pubkey,
                                  parsed.ed.created_at, parsed.ed.event_id,
                                  parsed.ed.name, parsed.ed.raw_content)

RECURSIVE records(_, _, _)
records(tbl, events, i) ==
    IF i > Len(events) THEN tbl
    ELSE records(records_event(tbl, events[i]), events, i + 1)

latest_records_events(served, since) ==
    {e \in served : e.kind = "Record" /\ e.created_at >= since}

(***************************************************************************)
(* Schema migrations (db/mod.rs initialize).  The table schema (version)   *)
(* has no key: it is the sequence of the version values inserted.  The     *)
(* schema objects that exist are named by the index in MIGRATIONS of the   *)
(* statement that created them.                                             *)
(***************************************************************************)
NumMigrations == 11

\* the database after the first p migrations were applied and recorded
RecordedPrefix(p) == [i \in 1..p |-> i - 1]
AppliedPrefix(p) == 0..(p - 1)

SeqRange(q) == {q[i] : i \in 1..Len(q)}

\* SELECT COALESCE(MAX(version) + 1, 0) FROM schema
schema_version(tbl) == IF Len(tbl) = 0 THEN 0 ELSE Max(SeqRange(tbl)) + 1

\* no call of initialize was made yet by this process
NoCall == [state |-> "idle", calls |-> 0, version |-> 0, idx |-> 0, applied |-> <<>>,
           stops |-> 0]

(***************************************************************************)
(* The authoring command `name record` (subcommands/name.rs mod record).   *)
(* A string is a sequence of characters; a KeyVal is an argument of the    *)
(* form key=value, already split by the command line parser.               *)
(***************************************************************************)
\* nothing was given to the command, nothing was sent
NoRecords == <<>>

\* KeyVal::pair: the key and the value of the argument
pair(kv) == <<kv.key, kv.val>>

\* Iterator::collect into a HashMap: a later pair replaces an earlier pair
\* of the same key
collect(pairs) ==
    [k \in {pairs[i][1] : i \in 1..Len(pairs)} |->
        pairs[CHOOSE i \in 1..Len(pairs) :
                 /\ pairs[i][1] = k
                 /\ \A j \in 1..Len(pairs) : pairs[j][1] = k => j <= i][2]]

\* char::to_uppercase over the characters of the model
char_to_uppercase(c) == IF c = "a" THEN "A" ELSE IF c = "b" THEN "B" ELSE c

\* str::to_uppercase
to_uppercase(k) == [i \in 1..Len(k) |-> char_to_uppercase(k[i])]

\* record::parse_records: each key in upper case, each value as it is.  No
\* function calls it.
parse_records(recs) ==
    collect([i \in 1..Len(recs) |->
                <<to_uppercase(recs[i].key), recs[i].val>>])

\* record::record, lines 185-190: the map that is serialised into the
\* content of the records event
record(recs) == collect([i \in 1..Len(recs) |-> pair(recs[i])])

\* no call of namespace::details is in progress
NoDetails == [state |-> "idle"]

\* the command `name new` was not started
NoNew == [state |-> "idle"]

\* No transaction-building command is running.
NoTx == [state |-> "idle"]

(***************************************************************************)
(* The system: the scheduler loop of server.rs (indexer), and the world    *)
(* around it (miners, clients publishing to the relay).                    *)
(***************************************************************************)
Init ==
    /\ network \in Networks
    /\ config = NoConfig
    /\ chain = <<>>
    /\ relay = {}
    /\ blockchain = {}
    /\ name_nsid = {}
    /\ create_events = {}
    /\ records_events = {}
    /\ pc = "index_blockchain"
    /\ start_height = NULL
    /\ early = {}
    /\ first_create = {}
    /\ delivered = <<>>
    /\ scanned = <<>>
    /\ tx_call = NoTx
    /\ new_call = NoNew
    /\ details_call = NoDetails
    /\ authored = {}
    /\ sent_records = NULL
    /\ record_data = NoRecords
    /\ objects = AppliedPrefix(NumMigrations)
    /\ schema = RecordedPrefix(NumMigrations)
    /\ initialize_call = NoCall
    /\ transport_errors = 0

\* A miner extends the chain by one block.
MineBlock(t) ==
    /\ Len(chain) < MaxChain
    /\ chain' = Append(chain, MakeBlock(Len(chain) + 1, t))
    /\ UNCHANGED <<network, config, relay, blockchain, name_nsid, create_events, records_events,
                   pc, start_height, early, first_create, delivered, scanned, transport_errors, initialize_call, schema, objects, record_data, sent_records, authored, details_call, new_call, tx_call>>

\* A client publishes a create event; the relay serves it from then on.
Publish(e) ==
    /\ e \notin relay
    /\ Cardinality(relay) < MaxRelay
    /\ relay' = relay \cup {e}
    /\ UNCHANGED <<network, config, chain, blockchain, name_nsid, create_events, records_events,
                   pc, start_height, early, first_create, delivered, scanned, transport_errors, initialize_call, schema, objects, record_data, sent_records, authored, details_call, new_call, tx_call>>

\* subcommands::index_blockchain(&config, &pool, 3, None).await
IndexBlockchain ==
    /\ pc = "index_blockchain"
    /\ LET res == index_blockchain(network, chain, blockchain)
       IN  /\ blockchain' = res.table
           /\ start_height' = res.start
           /\ pc' = IF res.status = "panic" THEN "panicked" ELSE "index_create_events"
    /\ UNCHANGED <<network, config, chain, relay, name_nsid, create_events, records_events,
                   early, first_create, delivered, scanned, transport_errors, initialize_call, schema, objects, record_data, sent_records, authored, details_call, new_call, tx_call>>

\* subcommands::index_create_events(&config, &pool).await
IndexCreateEvents ==
    /\ pc = "index_create_events"
    /\ LET since == last_create_event_time(create_events)
       IN  \E events \in Orders(latest_events(relay, since)) :
              LET st == create([name_nsid |-> name_nsid, create_events |-> create_events,
                                first |-> first_create], events, 1)
              IN  /\ name_nsid' = st.name_nsid
                  /\ create_events' = st.create_events
                  /\ first_create' = st.first
    /\ early' = early \cup {e.id : e \in {x \in relay : /\ x.kind = "Name"
                                                        /\ ValidCreate(x)
                                                        /\ ~namespace_exists(blockchain, from_event(x).ed.nsid)}}
    /\ pc' = "index_records_events"
    /\ UNCHANGED <<network, config, chain, relay, blockchain, records_events, start_height, delivered, scanned, transport_errors, initialize_call, schema, objects, record_data, sent_records, authored, details_call, new_call, tx_call>>

\* subcommands::index_records_events(&config, &pool).await
IndexRecordsEvents ==
    /\ pc = "index_records_events"
    /\ LET since == last_records_time(records_events)
       IN  \E events \in Orders(latest_records_events(relay, since)) :
              records_events' = records(records_events, events, 1)
    /\ pc' = "sleep"
    /\ UNCHANGED <<network, config, chain, relay, blockchain, name_nsid, create_events,
                   start_height, early, first_create, delivered, scanned, transport_errors, initialize_call, schema, objects, record_data, sent_records, authored, details_call, new_call, tx_call>>

\* The sleep with the loop resumed at its second step.
SleepThenCreate ==
    /\ pc = "sleep"
    /\ pc' = "index_create_events"
    /\ UNCHANGED <<network, config, chain, relay, blockchain, name_nsid, create_events,
                   records_events, start_height, early, first_create, delivered, scanned, transport_errors, initialize_call, schema, objects, record_data, sent_records, authored, details_call, new_call, tx_call>>

\* tokio::time::sleep(Duration::from_secs(30)).await, then the loop repeats
Sleep ==
    /\ pc = "sleep"
    /\ pc' = "index_blockchain"
    /\ UNCHANGED <<network, config, chain, relay, blockchain, name_nsid, create_events,
                   records_events, start_height, early, first_create, delivered, scanned, transport_errors, initialize_call, schema, objects, record_data, sent_records, authored, details_call, new_call, tx_call>>

Next ==
    \/ \E t \in 1..Len(BlockTemplates) : MineBlock(t)
    \/ \E e \in CreateEventUniverse : Publish(e)
    \/ IndexBlockchain
    \/ IndexCreateEvents
    \/ IndexRecordsEvents
    \/ Sleep

Spec == Init /\ [][Next]_vars

(***************************************************************************)
(* The records store on its own: any sequence of insert_records_event      *)
(* calls.                                                                   *)
(***************************************************************************)
OfferRecordsEvent(e) ==
    /\ Len(delivered) < MaxDelivered
    /\ records_events' = records_event(records_events, e)
    /\ delivered' = Append(delivered, e)
    /\ UNCHANGED <<network, config, chain, relay, blockchain, name_nsid, create_events,
                   pc, start_height, early, first_create, scanned, transport_errors, initialize_call, schema, objects, record_data, sent_records, authored, details_call, new_call, tx_call>>

NextRecords == \E e \in RecordsEventUniverse : OfferRecordsEvent(e)

SpecRecords == Init /\ [][NextRecords]_vars

(***************************************************************************)
(* What the chain holds, read off the chain itself.                         *)
(***************************************************************************)
AllNsids == {Nsid(n, p) : n \in Names, p \in Pubkeys}

\* The outputs on the chain that carry an anchor for nsid: <<height, index of
\* the transaction in its block, index of the output in its transaction>>.
Anchors(ch, nsid) ==
    UNION { UNION { { <<h, i, v - 1>> : v \in {w \in 1..Len(ch[h].tx[i].output) :
                                                 ch[h].tx[i].output[w] = GunScript(nsid)} }
                    : i \in 1..Len(ch[h].tx) }
            : h \in 1..Len(ch) }

Before(a, b) ==
    \/ a[1] < b[1]
    \/ a[1] = b[1] /\ a[2] < b[2]
    \/ a[1] = b[1] /\ a[2] = b[2] /\ a[3] <= b[3]

Earliest(S) == CHOOSE a \in S : \A b \in S : Before(a, b)

\* The height of the block a stored row names.
RowBlockHeight(ch, row) == CHOOSE h \in 1..Len(ch) : ch[h].hash = row.blockhash

\* The arguments insert_namespace may be called with.
InsertNamespaceArgs ==
    [nsid : AllNsids,
     blockhash : {BlockHash(h, t) : h \in 1..2, t \in 1..Len(BlockTemplates)},
     txid : {TxId(h, 1) : h \in 1..2},
     vout : 0..1,
     height : 1..2]

(***************************************************************************)
(* Claims.                                                                  *)
(***************************************************************************)

C3_CreateRowsAreAnchored ==
    /\ \A r \in create_events : namespace_exists(blockchain, r.nsid)
    /\ \A r \in name_nsid : namespace_exists(blockchain, r.nsid)

C5_FirstCreateWins ==
    /\ [](\A r \in create_events :
             \E f \in first_create : /\ f.nsid = r.nsid
                                     /\ f.event_id = r.event_id
                                     /\ f.created_at = r.created_at)
    /\ [][/\ create_events \subseteq create_events'
          /\ name_nsid \subseteq name_nsid'
          /\ \A r \in create_events' \ create_events :
                ~\E q \in create_events : q.nsid = r.nsid
          /\ \A r \in name_nsid' \ name_nsid :
                ~\E q \in name_nsid : q.name = r.name]_vars

\* C5 witness: both events for N1 are served, the create indexer has run with
\* the newer one in its batch, and the stored row is the older one's.
C5_Witness ==
    /\ pc = "index_records_events"
    /\ {e.id : e \in relay} = {1, 2}
    /\ \E r \in create_events : r.nsid = N1 /\ r.event_id = 1 /\ r.created_at = 1

\* C6: every stored create_events row satisfies nsid = Hash160(name || pubkey)
\* for its own name and pubkey, and so does every name_nsid row; an event whose
\* d tag differs from Hash160(nom || pubkey) has no row.
C6_StoredNsidIsHashOfNameAndKey ==
    /\ \A r \in create_events : r.nsid = Nsid(r.name, r.pubkey)
    /\ \A r \in name_nsid : r.nsid = Nsid(r.name, r.pubkey)
    /\ \A e \in relay :
          (e.d # NULL /\ e.d # Some(Nsid(e.nom, e.pubkey)))
             => ~\E r \in create_events : r.event_id = e.id

\* C6 witness: the create indexer has processed a batch holding the mismatched
\* event and a valid one, and stored the valid one.
C6_Witness ==
    /\ pc = "index_records_events"
    /\ {e.id : e \in relay} = {1, 6}
    /\ \E r \in create_events : r.event_id = 1

\* The row insert_records_event writes for a records event.
RecordsRow(e) ==
    [nsid |-> CHOOSE n \in e.d : TRUE, pubkey |-> e.pubkey, created_at |-> e.created_at,
     event_id |-> e.id, name |-> e.nom, records |-> e.content]

SameKey(e1, e2) == e1.d = e2.d /\ e1.pubkey = e2.pubkey

\* The positions in `delivered` of the events offered for e's (nsid, pubkey).
Offers(e) == {i \in 1..Len(delivered) : SameKey(delivered[i], e)}

\* The first of them that carries the greatest created_at offered for the key.
FirstGreatest(e) ==
    CHOOSE i \in Offers(e) :
        /\ \A j \in Offers(e) : delivered[j].created_at <= delivered[i].created_at
        /\ \A j \in Offers(e) : delivered[j].created_at = delivered[i].created_at => i <= j

\* C7: after any sequence of insert_records_event calls, every (nsid, pubkey)
\* that was offered has exactly one row, its created_at is the greatest ever
\* offered for the key, and its records, event_id and created_at are those of
\* the first event offered with that created_at: an event offered with a
\* created_at at or below the stored one changed nothing.  No other row exists.
C7_RecordsKeepGreatestCreatedAt ==
    /\ \A e \in RecordsEventUniverse :
          LET rows == {r \in records_events : r.nsid = RecordsRow(e).nsid /\ r.pubkey = e.pubkey}
          IN  IF Offers(e) = {} THEN rows = {}
              ELSE rows = {RecordsRow(delivered[FirstGreatest(e)])}
    /\ \A r \in records_events : \E i \in 1..Len(delivered) : r = RecordsRow(delivered[i])

\* C7 witness: a key was offered a newer event, then an older one and one with
\* the stored created_at.
C7_Witness ==
    /\ Len(delivered) = 3
    /\ delivered[1].id = 12 /\ delivered[2].id = 11 /\ delivered[3].id = 13
    /\ \E r \in records_events : r.event_id = 12 /\ r.created_at = 2

\* The table that offering the events of a sequence to an empty store leaves.
RECURSIVE OfferAll(_, _, _)
OfferAll(tbl, events, i) ==
    IF i > Len(events) THEN tbl
    ELSE OfferAll(records_event(tbl, events[i]), events, i + 1)

\* C8: for two records events of one (nsid, pubkey) with distinct created_at,
\* the table after offering them is the table that offering them in the other
\* order leaves, and the row's records are the content of the event with the
\* greater created_at.
C8_RecordsOrderIndependent ==
    (/\ Len(delivered) = 2
     /\ SameKey(delivered[1], delivered[2])
     /\ delivered[1].created_at # delivered[2].created_at)
    => LET newer == IF delivered[1].created_at > delivered[2].created_at
                    THEN delivered[1] ELSE delivered[2]
       IN  /\ records_events = OfferAll({}, <<delivered[2], delivered[1]>>, 1)
           /\ \A r \in records_events : r.records = newer.content
           /\ Cardinality(records_events) = 1

\* C8 witness: the newer event was offered first, the older one second.
C8_Witness ==
    /\ Len(delivered) = 2
    /\ delivered[1].id = 14 /\ delivered[2].id = 11
    /\ \E r \in records_events : r.records = "{A:3}"

\* C9: next_index_height returns max(blockchain.height) + 1 when the table is
\* not empty, a value above the height of every stored row's block, and the
\* configured network's genesis height when the table is empty.
C9_NextIndexHeight ==
    next_index_height(blockchain) =
        IF blockchain = {} THEN starting_block_height(network)
        ELSE 1 + Max({RowBlockHeight(chain, r) : r \in blockchain})

ReorgBranches == UNION {[1..n -> 1..Len(BlockTemplates)] : n \in 1..MaxChain}

\* The top d blocks of the chain are replaced by the blocks of another
\* branch, at least as long, none of them a block it replaces.
Reorg(d, ts) ==
    /\ d \in 1..Len(chain)
    /\ d <= confirmations(config)
    /\ Len(ts) >= d
    /\ Len(chain) - d + Len(ts) <= MaxChain
    /\ LET base == SubSeq(chain, 1, Len(chain) - d)
           branch == [i \in 1..Len(ts) |-> MakeBlock(Len(base) + i, ts[i])]
       IN  /\ \A i \in 1..d : branch[i] # chain[Len(base) + i]
           /\ chain' = base \o branch
    /\ UNCHANGED <<network, config, relay, blockchain, name_nsid, create_events, records_events,
                   pc, start_height, early, first_create, delivered, scanned, transport_errors, initialize_call, schema, objects, record_data, sent_records, authored, details_call, new_call, tx_call>>

NextReorg ==
    \/ Next
    \/ \E d \in 1..MaxChain, ts \in ReorgBranches : Reorg(d, ts)

SpecReorg == Init /\ [][NextReorg]_vars

MaxScanned == 2

IndigoKinds == {"create", "transfer"}

\* kind.into(): the kind byte
kind_into(kind) == IF kind = "create" THEN 0 ELSE 1

IndPrefix == <<73, 78, 68, 0>>
NomPrefix == <<78, 79, 77, 0>>

\* op_return(nsid, kind): b"IND\x00", the kind byte, the nsid
op_return(nsid, kind) == IndPrefix \o <<kind_into(kind)>> \o nsid

\* Script::new_op_return(data): the opcode, a push of the data
new_op_return(data) == <<OP_RETURN, Len(data)>> \o data

\* the script of the anchor output that create_unsigned_tx builds
OpReturnScript(nsid, kind) == new_op_return(op_return(nsid, kind))

\* the script of an output in the format "NOM" 0x00, kind byte, identifier
NomScript(nsid, kind) == new_op_return(NomPrefix \o <<kind_into(kind)>> \o nsid)

\* The pushed data of an OP_RETURN script: as_bytes()[2..]
OpReturnData(script) == SubSeq(script, 3, Len(script))

\* The identifier bytes of the pushed data: what follows its first 5 bytes.
DataIdentifier(script) == SubSeq(script, 8, Len(script))

\* The output scripts a scanned transaction may carry: what the encoders
\* emit for both kinds, anchors in the NOM format, gun anchors with a
\* 19-byte, a 20-byte and a 21-byte identifier, a gun anchor with another
\* version byte, a bare OP_RETURN opcode and a payment.
ScriptUniverse ==
    { OpReturnScript(N1, "create"), OpReturnScript(N2, "transfer"),
      GunScript(N1), GunScript(N2),
      NomScript(N1, "create"), NomScript(N2, "transfer"),
      GunScript(SubSeq(N1, 1, NsidLen - 1)), GunScript(N2 \o <<7>>),
      new_op_return(GunPrefix \o <<0, 1>> \o N1),
      <<OP_RETURN>>, PayScript }

\* One pass of the body of `for output in tx.output` over the script s.
ScanOutput(s) ==
    /\ pc # "panicked"
    /\ Len(scanned) < MaxScanned
    /\ LET st == index_output([table |-> blockchain, status |-> "ok"],
                              BlockHash(1, 1), TxId(1, 1), Len(scanned), 1, s)
       IN  /\ blockchain' = st.table
           /\ pc' = IF st.status = "panic" THEN "panicked" ELSE pc
    /\ scanned' = Append(scanned, s)
    /\ UNCHANGED <<network, config, chain, relay, name_nsid, create_events, records_events,
                   start_height, early, first_create, delivered, transport_errors, initialize_call, schema, objects, record_data, sent_records, authored, details_call, new_call, tx_call>>

NextCodec == \E s \in ScriptUniverse : ScanOutput(s)

SpecCodec == Init /\ [][NextCodec]_vars

\* C13: the script an encoder produces for a kind and a 20-byte nsid is
\* decoded by the indexer to a row of that nsid, and the indexer writes no row
\* from a payload whose first 4 bytes are not "NOM" 0x00, the gun prefix
\* included.
C13_EncodeDecodeRoundTrip ==
    /\ \A i \in 1..Len(scanned) : \A kind \in IndigoKinds, nsid \in AllNsids :
          (scanned[i] = OpReturnScript(nsid, kind) \/ scanned[i] = GunScript(nsid))
             => namespace_exists(blockchain, nsid)
    /\ \A r \in blockchain : \E i \in 1..Len(scanned) :
          /\ is_op_return(scanned[i])
          /\ starts_with(OpReturnData(scanned[i]), NomPrefix)
          /\ DataIdentifier(scanned[i]) = r.nsid

top_level_names_vw(b_tbl, nn_tbl, ce_tbl) ==
    {j \in [b : b_tbl, nn : nn_tbl, ce : ce_tbl] :
        j.b.nsid = j.nn.nsid /\ j.b.nsid = j.ce.nsid}

\* top_level_names: SELECT * FROM top_level_names_vw, fetch_all.  The rows
\* (ce.name, ce.nsid) of the result, each with the number of times it occurs.
top_level_names(b_tbl, nn_tbl, ce_tbl) ==
    LET vw == top_level_names_vw(b_tbl, nn_tbl, ce_tbl)
        rows == {<<j.ce.name, j.ce.nsid>> : j \in vw}
    IN  [row \in rows |-> Cardinality({j \in vw : <<j.ce.name, j.ce.nsid>> = row})]

\* C15: on regtest, a run of the blockchain indexer that starts from an empty
\* database over a chain whose block 1 carries a create anchor leaves exactly
\* one blockchain row with the anchor's nsid, and with no create event
\* published the tick ends with top_level_names empty.
C15_FreshInstallOneTick ==
    [][/\ (/\ pc = "index_blockchain" /\ pc' # "index_blockchain"
           /\ network = "regtest"
           /\ start_height = NULL
           /\ blockchain = {} /\ name_nsid = {} /\ create_events = {}
           /\ records_events = {})
          => \A nsid \in AllNsids :
                (\E a \in Anchors(chain, nsid) : a[1] = 1)
                   => Cardinality({r \in blockchain' : r.nsid = nsid}) = 1
       /\ (pc = "index_records_events" /\ pc' = "sleep" /\ relay = {})
          => DOMAIN top_level_names(blockchain', name_nsid', create_events') = {}
      ]_vars

name_records_vw(b_tbl, nn_tbl, ce_tbl, re_tbl) ==
    {j \in [b : b_tbl, nn : nn_tbl, ce : ce_tbl, re : re_tbl] :
        /\ j.b.nsid = j.nn.root
        /\ j.b.nsid = j.ce.nsid
        /\ j.nn.nsid = j.re.nsid
        /\ j.nn.pubkey = j.re.pubkey}

\* name_records: SELECT records from name_records_vw where name = ?,
\* fetch_optional.  The results the query may give: NULL with no row, or the
\* records of one of the rows.
name_records(b_tbl, nn_tbl, ce_tbl, re_tbl, name) ==
    LET rows == {j \in name_records_vw(b_tbl, nn_tbl, ce_tbl, re_tbl) : j.re.name = name}
    IN  IF rows = {} THEN {NULL} ELSE {Some(j.re.records) : j \in rows}

\* api::name: the responses GET /api/name?name=X may give.
api_name(b_tbl, nn_tbl, ce_tbl, re_tbl, name) ==
    {IF m = NULL THEN [status |-> 404, body |-> NULL] ELSE [status |-> 200, body |-> m] :
        m \in name_records(b_tbl, nn_tbl, ce_tbl, re_tbl, name)}

(***************************************************************************)
(* The server with clients that publish records events as well.            *)
(***************************************************************************)
\* The records events published to the relay: for (N1, pk1) under its name,
\* for N1 by another key, for (N2, pk2), and for (N1, pk1) under the name bob
\* (record takes the nsid and the name as separate arguments).
PublishedRecordsEvents ==
    { RecordsEvent(11, "alice", "pk1", N1, 1, "{A:1}"),
      RecordsEvent(15, "alice", "pk2", N1, 1, "{B:1}"),
      RecordsEvent(16, "bob", "pk2", N2, 2, "{C:2}"),
      RecordsEvent(17, "bob", "pk1", N1, 1, "{D:1}") }

NextResolve ==
    \/ Next
    \/ \E e \in PublishedRecordsEvents : Publish(e)

SpecResolve == Init /\ [][NextResolve]_vars

QueriedNames == Names \cup {"nonexistent"}

\* The records a name resolves to: those of a records event whose nsid and
\* pubkey are those of a create event of that name with a blockchain row.
Resolved(name) ==
    {re.records : re \in {x \in records_events :
        \E b \in blockchain, ce \in create_events :
            /\ b.nsid = ce.nsid /\ ce.name = name
            /\ x.nsid = ce.nsid /\ x.pubkey = ce.pubkey}}

name_for_nsid(nn_tbl, nsid) ==
    LET rows == {r \in nn_tbl : r.nsid = nsid}
    IN  IF rows = {} THEN {NULL} ELSE {Some(r.name) : r \in rows}

\* queries/blockchain_data.sql: blockhash, txid, vout, height of the row
\* whose nsid is the statement's parameter.
blockchain_data_sql(b_tbl, binds) ==
    {r \in b_tbl : Some(r.nsid) = Param(binds, 1)}

\* blockchain_data: the statement is run with no parameter bound.  A row is
\* decoded as (String, String, i64, i64); a NULL vout or height is an error.
blockchain_data(b_tbl, nsid) ==
    LET rows == blockchain_data_sql(b_tbl, <<>>)
    IN  IF rows = {} THEN {[ok |-> TRUE, blockdata |-> NULL]}
        ELSE {IF r.vout = NULL \/ r.height = NULL
              THEN [ok |-> FALSE, blockdata |-> NULL]
              ELSE [ok |-> TRUE,
                    blockdata |-> Some(<<r.blockhash, r.txid, r.vout, r.height>>)] :
              r \in rows}

\* details: the name and the block data of an nsid (its records and children
\* are shown on the page and decide no status).
details(nn_tbl, b_tbl, nsid) ==
    {[ok |-> bd.ok, name |-> name, blockdata |-> bd.blockdata] :
        name \in name_for_nsid(nn_tbl, nsid), bd \in blockchain_data(b_tbl, nsid)}

\* explore_nsid: the responses GET /explorer/:nsid may give.
explore_nsid(nn_tbl, b_tbl, nsid) ==
    {IF ~d.ok THEN [status |-> 500, name |-> NULL, blockdata |-> NULL]
     ELSE IF d.name = NULL \/ d.blockdata = NULL
          THEN [status |-> 404, name |-> NULL, blockdata |-> NULL]
          ELSE [status |-> 200, name |-> d.name, blockdata |-> d.blockdata] :
     d \in details(nn_tbl, b_tbl, nsid)}

PipelineOrder ==
    { <<"index_blockchain", "index_create_events">>,
      <<"index_blockchain", "panicked">>,
      <<"index_create_events", "index_records_events">>,
      <<"index_records_events", "sleep">>,
      <<"sleep", "index_blockchain">> }

\* C19: the scheduler runs the blockchain indexer, then the create indexer,
\* then the records indexer, then sleeps, and only then starts the next tick;
\* one step is active at a time, and each table is written only by its own
\* step of the pipeline.
C19_PipelineRunsInOrder ==
    [][/\ pc' # pc => <<pc, pc'>> \in PipelineOrder
       /\ blockchain' # blockchain => pc = "index_blockchain"
       /\ (create_events' # create_events \/ name_nsid' # name_nsid)
             => pc = "index_create_events"
       /\ records_events' # records_events => pc = "index_records_events"
       /\ start_height' # start_height => pc = "index_blockchain"
      ]_vars

\* C19 witness: a tick whose steps stored an anchor and a create event has
\* finished, and the next tick is about to start.
C19_Witness ==
    /\ pc = "index_blockchain"
    /\ start_height # NULL
    /\ blockchain # {}
    /\ create_events # {}


(***************************************************************************)
(* The server started with a configuration: any combination of the         *)
(* --indexer-delay flag and the [server] options of the config file.       *)
(***************************************************************************)
\* What one pass of the indexer loop hands to index_blockchain and to
\* tokio::time::sleep: the literals of the loop's body.
indexer_args(cfg) == [confirmations |-> 3, delay_secs |-> 30]

InitConfigured ==
    /\ network \in Networks
    /\ config \in Configs
    /\ chain = <<>>
    /\ relay = {}
    /\ blockchain = {}
    /\ name_nsid = {}
    /\ create_events = {}
    /\ records_events = {}
    /\ pc = "index_blockchain"
    /\ start_height = NULL
    /\ early = {}
    /\ first_create = {}
    /\ delivered = <<>>
    /\ scanned = <<>>
    /\ tx_call = NoTx
    /\ new_call = NoNew
    /\ details_call = NoDetails
    /\ authored = {}
    /\ sent_records = NULL
    /\ record_data = NoRecords
    /\ objects = AppliedPrefix(NumMigrations)
    /\ schema = RecordedPrefix(NumMigrations)
    /\ initialize_call = NoCall
    /\ transport_errors = 0

SpecConfigured == InitConfigured /\ [][Next]_vars

\* C20: the scheduler sleeps server.indexer_delay seconds between ticks and
\* passes server.confirmations to the blockchain indexer, falling back to 30
\* and 3 only when the options are unset.
C20_SchedulerUsesConfig ==
    /\ pc = "sleep" => indexer_args(config).delay_secs = server_indexer_delay(config)
    /\ pc = "index_blockchain" =>
           indexer_args(config).confirmations = confirmations(config)


(***************************************************************************)
(* The server with a bitcoin RPC endpoint and a relay whose calls may fail *)
(* with a transport error.  index_blockchain, index_create_events and      *)
(* index_records_events return the Err through `?`; the loop of indexer    *)
(* awaits each call and drops the Result it returns.                       *)
(***************************************************************************)
MaxErrors == 2

\* index_blockchain with the RPC call that fetches block k failing: the
\* blocks below k have been scanned, the run returns Err.
index_blockchain_rpc_error(net, ch, tbl, k) ==
    LET s == starting_blockheight(net)
        st == scan_blocks([table |-> tbl, status |-> "ok"], SubSeq(ch, 1, k), s.height)
    IN  [table |-> st.table,
         status |-> IF st.status = "ok" THEN "err" ELSE st.status,
         start |-> Some(s.height)]

\* subcommands::index_blockchain(..).await; with an RPC transport error at
\* block k
IndexBlockchainRpcError(k) ==
    /\ pc = "index_blockchain"
    /\ transport_errors < MaxErrors
    /\ starting_blockheight(network).ok
    /\ k \in starting_blockheight(network).height..Len(chain)
    /\ LET res == index_blockchain_rpc_error(network, chain, blockchain, k)
       IN  /\ blockchain' = res.table
           /\ start_height' = res.start
           /\ pc' = IF res.status = "panic" THEN "panicked" ELSE "index_create_events"
    /\ transport_errors' = transport_errors + 1
    /\ UNCHANGED <<network, config, chain, relay, name_nsid, create_events, records_events,
                   early, first_create, delivered, scanned, initialize_call, schema, objects, record_data, sent_records, authored, details_call, new_call, tx_call>>

\* subcommands::index_create_events(..).await; with client.get_events_of
\* failing in latest_events: nothing is processed
IndexCreateEventsRelayError ==
    /\ pc = "index_create_events"
    /\ transport_errors < MaxErrors
    /\ pc' = "index_records_events"
    /\ transport_errors' = transport_errors + 1
    /\ UNCHANGED <<network, config, chain, relay, blockchain, name_nsid, create_events,
                   records_events, start_height, early, first_create, delivered, scanned, initialize_call, schema, objects, record_data, sent_records, authored, details_call, new_call, tx_call>>

\* subcommands::index_records_events(..).await; with the relay failing
IndexRecordsEventsRelayError ==
    /\ pc = "index_records_events"
    /\ transport_errors < MaxErrors
    /\ pc' = "sleep"
    /\ transport_errors' = transport_errors + 1
    /\ UNCHANGED <<network, config, chain, relay, blockchain, name_nsid, create_events,
                   records_events, start_height, early, first_create, delivered, scanned, initialize_call, schema, objects, record_data, sent_records, authored, details_call, new_call, tx_call>>

NextFaulty ==
    \/ Next
    \/ \E k \in 1..MaxChain : IndexBlockchainRpcError(k)
    \/ IndexCreateEventsRelayError
    \/ IndexRecordsEventsRelayError

SpecFaulty == Init /\ [][NextFaulty]_vars

\* C21: a step that ends in a transport error aborts the tick, so the loop
\* goes to its sleep without running the steps that remain, and the tick
\* after it starts the blockchain indexer from next_index_height.
C21_TransportErrorAbortsTick ==
    [][/\ transport_errors' # transport_errors => pc' = "sleep"
       /\ (pc = "index_blockchain" /\ start_height' # NULL)
             => start_height' = Some(next_index_height(blockchain))
      ]_vars


(***************************************************************************)
(* db::initialize on its own: calls of initialize, statement by statement, *)
(* on a database that holds a recorded prefix of the migration list; the   *)
(* process may stop between two statements.  The connection is in          *)
(* autocommit mode: every statement that succeeded is durable.             *)
(***************************************************************************)
MaxCalls == 2
MaxStops == 1

InitMigrate ==
    /\ network \in Networks
    /\ config = NoConfig
    /\ chain = <<>>
    /\ relay = {}
    /\ blockchain = {}
    /\ name_nsid = {}
    /\ create_events = {}
    /\ records_events = {}
    /\ pc = "index_blockchain"
    /\ start_height = NULL
    /\ early = {}
    /\ first_create = {}
    /\ delivered = <<>>
    /\ scanned = <<>>
    /\ tx_call = NoTx
    /\ new_call = NoNew
    /\ details_call = NoDetails
    /\ authored = {}
    /\ sent_records = NULL
    /\ record_data = NoRecords
    /\ transport_errors = 0
    /\ initialize_call = NoCall
    /\ \E p \in 0..NumMigrations :
          /\ schema = RecordedPrefix(p)
          /\ objects = AppliedPrefix(p)

\* lines 34-43: CREATE TABLE IF NOT EXISTS schema, then the version is read
InitializeStart ==
    /\ initialize_call.state \in {"idle", "ok", "failed", "stopped"}
    /\ initialize_call.calls < MaxCalls
    /\ initialize_call' = [initialize_call EXCEPT
                              !.state = "exec", !.calls = @ + 1,
                              !.version = schema_version(schema),
                              !.idx = 0, !.applied = <<>>]
    /\ UNCHANGED <<network, config, chain, relay, blockchain, name_nsid, create_events,
                   records_events, pc, start_height, early, first_create, delivered,
                   scanned, transport_errors, schema, objects, record_data, sent_records, authored, details_call, new_call, tx_call>>

\* line 45 and line 47: the next element of MIGRATIONS[version..] is taken,
\* if there is one, and the statement is executed; it fails when its table,
\* index or view exists.
MigrateExecute ==
    /\ initialize_call.state = "exec"
    /\ LET m == initialize_call.version + initialize_call.idx
       IN  IF m >= NumMigrations
           THEN /\ initialize_call' = [initialize_call EXCEPT !.state = "ok"]
                /\ UNCHANGED objects
           ELSE IF m \in objects
                THEN /\ initialize_call' = [initialize_call EXCEPT !.state = "failed"]
                     /\ UNCHANGED objects
                ELSE /\ objects' = objects \cup {m}
                     /\ initialize_call' = [initialize_call EXCEPT
                                               !.state = "record",
                                               !.applied = Append(@, m)]
    /\ UNCHANGED <<network, config, chain, relay, blockchain, name_nsid, create_events,
                   records_events, pc, start_height, early, first_create, delivered,
                   scanned, transport_errors, schema, record_data, sent_records, authored, details_call, new_call, tx_call>>

\* lines 48-51: INSERT INTO schema (version) VALUES (?) with idx bound, idx
\* being the position that enumerate() gives within the slice
MigrateRecord ==
    /\ initialize_call.state = "record"
    /\ schema' = Append(schema, initialize_call.idx)
    /\ initialize_call' = [initialize_call EXCEPT !.state = "exec", !.idx = @ + 1]
    /\ UNCHANGED <<network, config, chain, relay, blockchain, name_nsid, create_events,
                   records_events, pc, start_height, early, first_create, delivered,
                   scanned, transport_errors, objects, record_data, sent_records, authored, details_call, new_call, tx_call>>

\* The process stops between two statements of initialize.
Stop ==
    /\ initialize_call.state \in {"exec", "record"}
    /\ initialize_call.stops < MaxStops
    /\ initialize_call' = [initialize_call EXCEPT !.state = "stopped", !.stops = @ + 1]
    /\ UNCHANGED <<network, config, chain, relay, blockchain, name_nsid, create_events,
                   records_events, pc, start_height, early, first_create, delivered,
                   scanned, transport_errors, schema, objects, record_data, sent_records, authored, details_call, new_call, tx_call>>

NextMigrate ==
    \/ InitializeStart
    \/ MigrateExecute
    \/ MigrateRecord
    \/ Stop

SpecMigrate == InitMigrate /\ [][NextMigrate]_vars

\* C22: on a database that holds a recorded prefix of the migration list, a
\* call of initialize that runs to its end succeeds, has applied exactly the
\* missing tail in order and leaves max(schema.version) at the index of the
\* last migration; the call after it applies nothing and succeeds.
C22_InitializeIdempotent ==
    LET c == initialize_call
    IN  (c.stops = 0 /\ c.state \in {"ok", "failed"}) =>
           /\ c.state = "ok"
           /\ objects = AppliedPrefix(NumMigrations)
           /\ Max(SeqRange(schema)) = NumMigrations - 1
           /\ c.calls = 1 =>
                 c.applied = [i \in 1..Len(c.applied) |->
                                 NumMigrations - Len(c.applied) + i - 1]
           /\ c.calls = 2 => c.applied = <<>>

\* C23: whenever the process has stopped inside initialize, every migration
\* whose statement took effect has its version row, and the calls of
\* initialize made after a stop do not fail.
C23_MigrationAtomicWithVersionRow ==
    /\ initialize_call.state = "stopped" => Len(schema) = Cardinality(objects)
    /\ initialize_call.stops > 0 => initialize_call.state # "failed"


(***************************************************************************)
(* The server against a relay that answers a filter with at most           *)
(* RelayBatchCap events.                                                   *)
(***************************************************************************)
RelayBatchCap == 1

\* The batches a capped relay may return for the events that match a filter.
CappedBatches(matching) ==
    {b \in SUBSET matching :
        Cardinality(b) = IF Cardinality(matching) < RelayBatchCap
                         THEN Cardinality(matching) ELSE RelayBatchCap}

\* subcommands::index_create_events(&config, &pool).await: latest_events
\* issues its filter once and create processes the batch that came back.
IndexCreateEventsCapped ==
    /\ pc = "index_create_events"
    /\ LET since == last_create_event_time(create_events)
       IN  \E batch \in CappedBatches(latest_events(relay, since)) :
           \E events \in Orders(batch) :
              LET st == create([name_nsid |-> name_nsid, create_events |-> create_events,
                                first |-> first_create], events, 1)
              IN  /\ name_nsid' = st.name_nsid
                  /\ create_events' = st.create_events
                  /\ first_create' = st.first
    /\ early' = early \cup {e.id : e \in {x \in relay : /\ x.kind = "Name"
                                                        /\ ValidCreate(x)
                                                        /\ ~namespace_exists(blockchain, from_event(x).ed.nsid)}}
    /\ pc' = "index_records_events"
    /\ UNCHANGED <<network, config, chain, relay, blockchain, records_events, start_height,
                   delivered, scanned, transport_errors, initialize_call, schema, objects, record_data, sent_records, authored, details_call, new_call, tx_call>>

NextCapped ==
    \/ \E t \in 1..Len(BlockTemplates) : MineBlock(t)
    \/ \E e \in CreateEventUniverse : Publish(e)
    \/ IndexBlockchain
    \/ IndexCreateEventsCapped
    \/ IndexRecordsEvents
    \/ Sleep

SpecCapped == Init /\ [][NextCapped]_vars

\* C24: a run of the create indexer processes every create event the relay
\* holds with created_at at or above the cursor the run started from, however
\* the relay caps its batches: each valid one has a create_events row for its
\* nsid when the run ends, and none of them is left below the new cursor.
C24_FetchLeavesNoGap ==
    [][(pc = "index_create_events" /\ pc' = "index_records_events") =>
          \A e \in relay :
              (/\ e.kind = "Name"
               /\ ValidCreate(e)
               /\ e.created_at >= last_create_event_time(create_events))
              => \E r \in create_events' : r.nsid = from_event(e).ed.nsid
      ]_vars


(***************************************************************************)
(* One pass of the scheduler loop as a function of the database, over a    *)
(* chain and a relay that do not change.                                   *)
(***************************************************************************)
Database == [blockchain |-> blockchain, name_nsid |-> name_nsid,
             create_events |-> create_events, records_events |-> records_events]

\* The databases one pass of the loop of indexer may leave: the three steps
\* in order, each batch in any order the relay may return it.
tick(db, net, ch, served) ==
    LET b == index_blockchain(net, ch, db.blockchain).table
    IN  UNION { { [blockchain |-> b,
                   name_nsid |-> create([name_nsid |-> db.name_nsid,
                                         create_events |-> db.create_events,
                                         first |-> {}], ces, 1).name_nsid,
                   create_events |-> create([name_nsid |-> db.name_nsid,
                                             create_events |-> db.create_events,
                                             first |-> {}], ces, 1).create_events,
                   records_events |-> records(db.records_events, res, 1)] :
                  res \in Orders(latest_records_events(served,
                                     last_records_time(db.records_events))) } :
                ces \in Orders(latest_events(served,
                                   last_create_event_time(db.create_events))) }

\* The events published while whole passes of the loop are observed: two
\* create events for N1, a claim of the name alice by another key, and
\* records events for (N1, pk1) under two names and for (N2, pk2).
TickEvents ==
    { CreateEvent(1, "alice", "pk1", Some(N1), 1),
      CreateEvent(2, "alice", "pk1", Some(N1), 2),
      CreateEvent(5, "alice", "pk2", Some(Nsid("alice", "pk2")), 2),
      RecordsEvent(11, "alice", "pk1", N1, 1, "{A:1}"),
      RecordsEvent(17, "bob", "pk1", N1, 1, "{D:1}"),
      RecordsEvent(16, "bob", "pk2", N2, 2, "{C:2}") }

\* One whole pass of the loop of indexer, with nothing else happening in
\* between its steps.
Tick ==
    /\ pc = "index_blockchain"
    /\ \E db1 \in tick(Database, network, chain, relay) :
          /\ blockchain' = db1.blockchain
          /\ name_nsid' = db1.name_nsid
          /\ create_events' = db1.create_events
          /\ records_events' = db1.records_events
    /\ start_height' = index_blockchain(network, chain, blockchain).start
    /\ UNCHANGED <<network, config, chain, relay, pc, early, first_create, delivered,
                   scanned, transport_errors, initialize_call, schema, objects, record_data, sent_records, authored, details_call, new_call, tx_call>>

NextTick ==
    \/ \E t \in 1..Len(BlockTemplates) : MineBlock(t)
    \/ \E e \in TickEvents : Publish(e)
    \/ Tick

SpecTick == Init /\ [][NextTick]_vars

\* C25: with the chain and the relay frozen, a second pass of the scheduler
\* loop leaves every table as the first pass left it, whatever events the
\* inclusive `since` boundary delivers again and in whatever order.
C25_SecondTickChangesNothing ==
    \A db1 \in tick(Database, network, chain, relay) :
        tick(db1, network, chain, relay) = {db1}

\* C25 witness: the loop is about to start a pass that will write to all four
\* tables, after which the relay delivers create and records events again.
C25_Witness ==
    /\ pc = "index_blockchain"
    /\ \E db1 \in tick(Database, network, chain, relay) :
          /\ db1.blockchain # blockchain
          /\ db1.name_nsid # name_nsid
          /\ db1.create_events # create_events
          /\ db1.records_events # records_events
          /\ latest_events(relay, last_create_event_time(db1.create_events)) # {}
          /\ latest_records_events(relay, last_records_time(db1.records_events)) # {}


C27_IndexerNeverPanics == pc # "panicked"


(***************************************************************************)
(* The command `name record` on its own: it is given some key=value        *)
(* arguments and sends one records event.                                  *)
(***************************************************************************)
MaxRecords == 2

Chars == {"a", "A", "b", "1"}

RecordKeys == {<<c>> : c \in Chars} \cup {<<"a", c>> : c \in {"b", "B"}}

RecordValues == {<<"x">>, <<"X", "y">>}

KeyVals == [key : RecordKeys, val : RecordValues]

InitRecord ==
    /\ network \in Networks
    /\ config = NoConfig
    /\ chain = <<>>
    /\ relay = {}
    /\ blockchain = {}
    /\ name_nsid = {}
    /\ create_events = {}
    /\ records_events = {}
    /\ pc = "index_blockchain"
    /\ start_height = NULL
    /\ early = {}
    /\ first_create = {}
    /\ delivered = <<>>
    /\ scanned = <<>>
    /\ tx_call = NoTx
    /\ new_call = NoNew
    /\ details_call = NoDetails
    /\ authored = {}
    /\ transport_errors = 0
    /\ initialize_call = NoCall
    /\ schema = RecordedPrefix(NumMigrations)
    /\ objects = AppliedPrefix(NumMigrations)
    /\ record_data \in UNION {[1..n -> KeyVals] : n \in 1..MaxRecords}
    /\ sent_records = NULL

\* record::record: the event is built from the arguments and sent
Record ==
    /\ sent_records = NULL
    /\ sent_records' = Some(record(record_data))
    /\ UNCHANGED <<network, config, chain, relay, blockchain, name_nsid, create_events,
                   records_events, pc, start_height, early, first_create, delivered,
                   scanned, transport_errors, initialize_call, schema, objects,
                   record_data, authored, details_call, new_call, tx_call>>

NextRecord == Record

SpecRecord == InitRecord /\ [][NextRecord]_vars

HasLowerCase(k) == \E i \in 1..Len(k) : char_to_uppercase(k[i]) # k[i]

\* C28: the records map that the records path writes holds, for every
\* key=value pair it was given, the key in upper case, mapped to the value
\* of the last pair given for that key, unchanged, and holds no key with a
\* lower-case letter.
C28_RecordKeysUpperCased ==
    \A m \in sent_records :
        /\ m = parse_records(record_data)
        /\ \A k \in DOMAIN m : ~HasLowerCase(k)


(***************************************************************************)
(* The authoring commands that send a create/name event: `name new` of     *)
(* subcommands/name/new.rs, `name new` of subcommands/name.rs (mod new)    *)
(* and broadcast_new_name.  An event is [pubkey, tags, content, name]:     *)
(* the signing key's public key, the tags as <<tag name, value>> in order, *)
(* and the name the command was given.                                     *)
(***************************************************************************)
MaxAuthored == 2

\* super::name_event(pubkey, records, name)
name_event(pubkey, name) ==
    [pubkey |-> pubkey, name |-> name, content |-> "{}",
     tags |-> << <<"d", Nsid(name, pubkey)>>, <<"nom", name>> >>]

\* name/new.rs new: the event of name_event, signed with the given key
new_name_new(name, pubkey) == name_event(pubkey, name)

\* name.rs new::create_event for a name without children: Tag::Identifier
\* and a custom tag "ind"
new_create_event(name, pubkey) ==
    [pubkey |-> pubkey, name |-> name, content |-> "[]",
     tags |-> << <<"d", Nsid(name, pubkey)>>, <<"ind", name>> >>]

\* The create documents broadcast_new_name may read: a name and the public
\* key the document states.
CreateDocuments == [name : Names, pubkey : Pubkeys]

\* Create::namespace_id
namespace_id(doc) == Nsid(doc.name, doc.pubkey)

\* broadcast_new_name.rs new_event: the d tag from the document, a tag "ind",
\* signed with the key given as privkey
new_event(doc, pubkey) ==
    [pubkey |-> pubkey, name |-> doc.name, content |-> "[]",
     tags |-> << <<"d", namespace_id(doc)>>, <<"ind", doc.name>> >>]

\* name/new.rs new: nostr.send_event(event)
NameNew(name, pubkey) ==
    /\ Cardinality(authored) < MaxAuthored
    /\ new_name_new(name, pubkey) \notin authored
    /\ authored' = authored \cup {new_name_new(name, pubkey)}
    /\ UNCHANGED <<network, config, chain, relay, blockchain, name_nsid, create_events,
                   records_events, pc, start_height, early, first_create, delivered,
                   scanned, transport_errors, initialize_call, schema, objects,
                   record_data, sent_records, details_call, new_call, tx_call>>

\* name.rs new::new: nostr.send_event(event)
NameNewWithChildren(name, pubkey) ==
    /\ Cardinality(authored) < MaxAuthored
    /\ new_create_event(name, pubkey) \notin authored
    /\ authored' = authored \cup {new_create_event(name, pubkey)}
    /\ UNCHANGED <<network, config, chain, relay, blockchain, name_nsid, create_events,
                   records_events, pc, start_height, early, first_create, delivered,
                   scanned, transport_errors, initialize_call, schema, objects,
                   record_data, sent_records, details_call, new_call, tx_call>>

\* broadcast_new_name: client.send_event(event)
BroadcastNewName(doc, pubkey) ==
    /\ Cardinality(authored) < MaxAuthored
    /\ new_event(doc, pubkey) \notin authored
    /\ authored' = authored \cup {new_event(doc, pubkey)}
    /\ UNCHANGED <<network, config, chain, relay, blockchain, name_nsid, create_events,
                   records_events, pc, start_height, early, first_create, delivered,
                   scanned, transport_errors, initialize_call, schema, objects,
                   record_data, sent_records, details_call, new_call, tx_call>>

NextAuthor ==
    \/ \E name \in Names, pubkey \in Pubkeys : NameNew(name, pubkey)
    \/ \E name \in Names, pubkey \in Pubkeys : NameNewWithChildren(name, pubkey)
    \/ \E doc \in CreateDocuments, pubkey \in Pubkeys : BroadcastNewName(doc, pubkey)

SpecAuthor == Init /\ [][NextAuthor]_vars

\* the values of the tags of an event that have the given tag name
TagValues(event, tag) ==
    {i \in 1..Len(event.tags) : event.tags[i][1] = tag}

\* C29: every create/name event an authoring command built carries exactly
\* one d tag, whose value is the nsid of the name and the signing key's public
\* key, and exactly one nom tag, whose value is the name.
C29_AuthoredEventIsValidCreate ==
    \A e \in authored :
        /\ Cardinality(TagValues(e, "d")) = 1
        /\ \A i \in TagValues(e, "d") : e.tags[i][2] = Nsid(e.name, e.pubkey)
        /\ Cardinality(TagValues(e, "nom")) = 1
        /\ \A i \in TagValues(e, "nom") : e.tags[i][2] = e.name


(***************************************************************************)
(* namespace::details query by query, on a connection of the pool, while   *)
(* the indexer task of start writes through the same pool.  The relay      *)
(* serves create events only, so records_events does not change.           *)
(***************************************************************************)
QueriedNsids == {N1, N2}

\* queries/records.sql: SELECT records FROM records_events WHERE nsid = ?,
\* fetch_optional.  The results the query may give.
records_for_nsid(re_tbl, nsid) ==
    LET rows == {r \in re_tbl : r.nsid = nsid}
    IN  IF rows = {} THEN {NULL} ELSE {Some(r.records) : r \in rows}

\* queries/children.sql: the (name, pubkey) of the name_nsid rows whose
\* parent is the nsid, fetch_all
children(nn_tbl, nsid) ==
    {<<r.name, r.pubkey>> : r \in {x \in nn_tbl : x.parent = Some(nsid)}}

\* The values details may return when its four queries read one database.
DetailsOn(nn_tbl, re_tbl, b_tbl, nsid) ==
    {[name |-> n, records |-> r, blockdata |-> bd.blockdata,
      children |-> children(nn_tbl, nsid)] :
        n \in name_for_nsid(nn_tbl, nsid),
        r \in records_for_nsid(re_tbl, nsid),
        bd \in {x \in blockchain_data(b_tbl, nsid) : x.ok}}

\* a request for the page of nsid arrives: details is entered
DetailsStart(nsid) ==
    /\ details_call.state = "idle"
    /\ details_call' = [state |-> "name_for_nsid", nsid |-> nsid, from |-> name_nsid,
                        name |-> NULL, records |-> NULL, blockdata |-> NULL,
                        children |-> {}]
    /\ UNCHANGED <<network, config, chain, relay, blockchain, name_nsid, create_events,
                   records_events, pc, start_height, early, first_create, delivered,
                   scanned, transport_errors, initialize_call, schema, objects,
                   record_data, sent_records, authored, new_call, tx_call>>

\* let name = name_for_nsid(conn, nsid.clone()).await?
DetailsName ==
    /\ details_call.state = "name_for_nsid"
    /\ \E n \in name_for_nsid(name_nsid, details_call.nsid) :
          details_call' = [details_call EXCEPT !.state = "records", !.name = n]
    /\ UNCHANGED <<network, config, chain, relay, blockchain, name_nsid, create_events,
                   records_events, pc, start_height, early, first_create, delivered,
                   scanned, transport_errors, initialize_call, schema, objects,
                   record_data, sent_records, authored, new_call, tx_call>>

\* let records = records(conn, nsid.clone()).await?
DetailsRecords ==
    /\ details_call.state = "records"
    /\ \E r \in records_for_nsid(records_events, details_call.nsid) :
          details_call' = [details_call EXCEPT !.state = "blockchain_data", !.records = r]
    /\ UNCHANGED <<network, config, chain, relay, blockchain, name_nsid, create_events,
                   records_events, pc, start_height, early, first_create, delivered,
                   scanned, transport_errors, initialize_call, schema, objects,
                   record_data, sent_records, authored, new_call, tx_call>>

\* let blockdata = blockchain_data(conn, nsid.clone()).await?
DetailsBlockdata ==
    /\ details_call.state = "blockchain_data"
    /\ \E bd \in blockchain_data(blockchain, details_call.nsid) :
          details_call' = [details_call EXCEPT
                              !.state = IF bd.ok THEN "children" ELSE "err",
                              !.blockdata = bd.blockdata]
    /\ UNCHANGED <<network, config, chain, relay, blockchain, name_nsid, create_events,
                   records_events, pc, start_height, early, first_create, delivered,
                   scanned, transport_errors, initialize_call, schema, objects,
                   record_data, sent_records, authored, new_call, tx_call>>

\* let children = children(conn, nsid).await?, and the value is returned
DetailsChildren ==
    /\ details_call.state = "children"
    /\ details_call' = [details_call EXCEPT
                           !.state = "done",
                           !.children = children(name_nsid, details_call.nsid)]
    /\ UNCHANGED <<network, config, chain, relay, blockchain, name_nsid, create_events,
                   records_events, pc, start_height, early, first_create, delivered,
                   scanned, transport_errors, initialize_call, schema, objects,
                   record_data, sent_records, authored, new_call, tx_call>>

NextDetails ==
    \/ Next
    \/ \E nsid \in QueriedNsids : DetailsStart(nsid)
    \/ DetailsName
    \/ DetailsRecords
    \/ DetailsBlockdata
    \/ DetailsChildren

SpecDetails == Init /\ [][NextDetails]_vars

\* C30: the value a details call returned is what its four lookups return on
\* one database that existed during the call.  name_nsid only grows, so each
\* such database holds a name_nsid between the one the call found and the
\* present one.
C30_DetailsIsAtomic ==
    details_call.state = "done" =>
        \E nn \in {x \in SUBSET name_nsid : details_call.from \subseteq x} :
            [name |-> details_call.name, records |-> details_call.records,
             blockdata |-> details_call.blockdata, children |-> details_call.children]
               \in DetailsOn(nn, records_events, blockchain, details_call.nsid)


(***************************************************************************)
(* The indexer on a chain whose blocks also carry OP_RETURN outputs that   *)
(* are no well-formed anchor.                                              *)
(***************************************************************************)
\* The transaction lists of such blocks: an anchor with another version
\* byte before an anchor of N2 in one transaction; an anchor with a 19-byte
\* identifier in the transaction before an anchor of N2; a bare OP_RETURN
\* opcode before an anchor of N1; an OP_RETURN that carries other data
\* before an anchor of N1.
MalformedTemplates ==
    << << <<PayScript, new_op_return(GunPrefix \o <<0, 1>> \o N1), GunScript(N2)>> >>,
       << <<GunScript(SubSeq(N1, 1, NsidLen - 1))>>, <<GunScript(N2)>> >>,
       << <<PayScript>>, <<<<OP_RETURN>>, GunScript(N1)>> >>,
       << <<new_op_return(<<1, 2, 3>>), GunScript(N1)>> >> >>

MakeMalformedBlock(height, t) ==
    [hash |-> BlockHash(height, Len(BlockTemplates) + t),
     height |-> height,
     tx |-> [i \in 1..Len(MalformedTemplates[t]) |->
                [txid |-> TxId(height, i), output |-> MalformedTemplates[t][i]]]]

\* A miner extends the chain by such a block.
MineMalformedBlock(t) ==
    /\ Len(chain) < MaxChain
    /\ chain' = Append(chain, MakeMalformedBlock(Len(chain) + 1, t))
    /\ UNCHANGED <<network, config, relay, blockchain, name_nsid, create_events,
                   records_events, pc, start_height, early, first_create, delivered,
                   scanned, transport_errors, initialize_call, schema, objects,
                   record_data, sent_records, authored, details_call, new_call, tx_call>>

NextMalformed ==
    \/ Next
    \/ \E t \in 1..Len(MalformedTemplates) : MineMalformedBlock(t)

SpecMalformed == Init /\ [][NextMalformed]_vars

\* C31: a run of the blockchain indexer over blocks that carry malformed
\* OP_RETURN payloads writes no row for a payload that is no anchor of a
\* 20-byte nsid, and stores every well-formed anchor of the blocks it
\* scans, those that follow a malformed payload in their transaction or
\* their block included.
C31_MalformedPayloadIsSkipped ==
    [][(pc = "index_blockchain" /\ pc' # "index_blockchain" /\ network = "regtest") =>
          /\ \A r \in blockchain' : r.nsid \in AllNsids
          /\ \A nsid \in AllNsids :
                (\E a \in Anchors(chain, nsid) : a[1] < Len(chain))
                   => namespace_exists(blockchain', nsid)
      ]_vars


\* The tables a run of create holds before it takes the n-th event of its
\* batch.
CreateBefore(events, n) ==
    create([name_nsid |-> name_nsid, create_events |-> create_events,
            first |-> first_create], SubSeq(events, 1, n - 1), 1)

\* C32: in a run of the create indexer over any batch the relay may return,
\* in any order, an event that fails parsing or validation leaves name_nsid
\* and create_events as they were when its turn came, and every valid event
\* of the batch, those after it included, has a create_events row for its
\* nsid when the run ends.
C32_InvalidEventIsSkipped ==
    \A events \in Orders(latest_events(relay, last_create_event_time(create_events))) :
        LET end == CreateBefore(events, Len(events) + 1)
        IN  \A i \in 1..Len(events) :
               IF ValidCreate(events[i])
               THEN \E r \in end.create_events : r.nsid = from_event(events[i]).ed.nsid
               ELSE /\ CreateBefore(events, i + 1).name_nsid = CreateBefore(events, i).name_nsid
                    /\ CreateBefore(events, i + 1).create_events
                          = CreateBefore(events, i).create_events
                    /\ ~\E r \in end.create_events : r.event_id = events[i].id

\* C32 witness: the create indexer has run over a batch that held the event
\* that fails parsing and a valid event, and the valid one is stored.
C32_Witness ==
    /\ pc = "index_records_events"
    /\ {e.id : e \in relay} = {1, 7}
    /\ \E r \in create_events : r.event_id = 1
    /\ name_nsid = {[name |-> "alice", nsid |-> N1, root |-> N1, parent |-> Some(N1),
                     pubkey |-> "pk1"]}


(***************************************************************************)
(* The command `name new` of subcommands/name/new.rs, statement by         *)
(* statement, next to a server whose loop goes on storing the create       *)
(* events that clients publish.                                            *)
(***************************************************************************)
\* db::name_available: true iff no create event with that name exists
name_available(ce_tbl, name) == ~\E r \in ce_tbl : r.name = name

\* the command is started for a name, with the private key of pubkey
NewStart(name, pubkey) ==
    /\ new_call.state = "idle"
    /\ new_call' = [state |-> "check_name", name |-> name, pubkey |-> pubkey,
                    available |-> NULL, keys_read |-> FALSE, tx_built |-> FALSE]
    /\ UNCHANGED <<network, config, chain, relay, blockchain, name_nsid, create_events,
                   records_events, pc, start_height, early, first_create, delivered,
                   scanned, transport_errors, initialize_call, schema, objects,
                   record_data, sent_records, authored, details_call, tx_call>>

\* check_name with the bail! left out: the command goes on whatever
\* name_available returned.
NewCheckNameOnly ==
    /\ new_call.state = "check_name"
    /\ new_call' = [new_call EXCEPT
                       !.available = Some(name_available(create_events, new_call.name)),
                       !.state = "get_keys"]
    /\ UNCHANGED <<network, config, chain, relay, blockchain, name_nsid, create_events,
                   records_events, pc, start_height, early, first_create, delivered,
                   scanned, transport_errors, initialize_call, schema, objects,
                   record_data, sent_records, authored, details_call, tx_call>>

\* line 24: check_name(config, args.name.as_ref()).await?
NewCheckName ==
    /\ new_call.state = "check_name"
    /\ new_call' = [new_call EXCEPT
                       !.available = Some(name_available(create_events, new_call.name)),
                       !.state = IF name_available(create_events, new_call.name)
                                 THEN "get_keys" ELSE "failed"]
    /\ UNCHANGED <<network, config, chain, relay, blockchain, name_nsid, create_events,
                   records_events, pc, start_height, early, first_create, delivered,
                   scanned, transport_errors, initialize_call, schema, objects,
                   record_data, sent_records, authored, details_call, tx_call>>

\* line 25: let keys = get_keys(&args.privkey)?
NewGetKeys ==
    /\ new_call.state = "get_keys"
    /\ new_call' = [new_call EXCEPT !.keys_read = TRUE, !.state = "create_unsigned_tx"]
    /\ UNCHANGED <<network, config, chain, relay, blockchain, name_nsid, create_events,
                   records_events, pc, start_height, early, first_create, delivered,
                   scanned, transport_errors, initialize_call, schema, objects,
                   record_data, sent_records, authored, details_call, tx_call>>

\* lines 27-31: the nsid, the fingerprint and the unsigned transaction
NewCreateUnsignedTx ==
    /\ new_call.state = "create_unsigned_tx"
    /\ new_call' = [new_call EXCEPT !.tx_built = TRUE, !.state = "send_event"]
    /\ UNCHANGED <<network, config, chain, relay, blockchain, name_nsid, create_events,
                   records_events, pc, start_height, early, first_create, delivered,
                   scanned, transport_errors, initialize_call, schema, objects,
                   record_data, sent_records, authored, details_call, tx_call>>

\* lines 33-36: the event is built, signed and sent
NewSendEvent ==
    /\ new_call.state = "send_event"
    /\ authored' = authored \cup {new_name_new(new_call.name, new_call.pubkey)}
    /\ new_call' = [new_call EXCEPT !.state = "done"]
    /\ UNCHANGED <<network, config, chain, relay, blockchain, name_nsid, create_events,
                   records_events, pc, start_height, early, first_create, delivered,
                   scanned, transport_errors, initialize_call, schema, objects,
                   record_data, sent_records, details_call, tx_call>>

NextNameNew ==
    \/ \E e \in CreateEventUniverse : Publish(e)
    \/ Tick
    \/ \E name \in Names, pubkey \in Pubkeys : NewStart(name, pubkey)
    \/ NewCheckName
    \/ NewGetKeys
    \/ NewCreateUnsignedTx
    \/ NewSendEvent

SpecNameNew == Init /\ [][NextNameNew]_vars

\* C33: `name new` checks the availability of the name first.  When a create
\* event with the name is in the store at the check, the command fails
\* there: no key was read, no transaction built and no event sent; a key is
\* read, a transaction built and an event sent only after name_available
\* returned true.
C33_NameNewChecksAvailabilityFirst ==
    /\ [](new_call.state # "idle" =>
            /\ new_call.available = Some(FALSE) =>
                  /\ new_call.state = "failed"
                  /\ ~new_call.keys_read /\ ~new_call.tx_built
                  /\ authored = {}
            /\ (new_call.keys_read \/ new_call.tx_built \/ authored # {}
                \/ new_call.state \in {"get_keys", "create_unsigned_tx", "send_event", "done"})
                  => new_call.available = Some(TRUE))
    /\ [][(new_call.state = "check_name" /\ new_call' # new_call) =>
             new_call'.available = Some(~\E r \in create_events : r.name = new_call.name)
         ]_vars

\* C33 witness: the command was started for a name that a create event in
\* the store holds, and has failed at the check.
C33_Witness ==
    /\ new_call.state = "failed"
    /\ new_call.available = Some(FALSE)
    /\ \E r \in create_events : r.name = new_call.name


(***************************************************************************)
(* The server with a database whose statements may fail (a full disk, a    *)
(* locked file): save_event returns the error and create returns it        *)
(* through `?`.                                                            *)
(***************************************************************************)
\* subcommands::index_create_events(..).await; with the statement of
\* save_event failing for the i-th event of the batch, after save_names
\* succeeded for it
IndexCreateEventsDbError ==
    /\ pc = "index_create_events"
    /\ LET since == last_create_event_time(create_events)
       IN  \E events \in Orders(latest_events(relay, since)) :
           \E i \in 1..Len(events) :
              /\ ValidCreate(events[i])
              /\ LET st == CreateBefore(events, i)
                 IN  /\ name_nsid' = save_names(st.name_nsid, from_event(events[i]).ed)
                     /\ create_events' = st.create_events
                     /\ first_create' = st.first
    /\ early' = early \cup {e.id : e \in {x \in relay : /\ x.kind = "Name"
                                                        /\ ValidCreate(x)
                                                        /\ ~namespace_exists(blockchain, from_event(x).ed.nsid)}}
    /\ pc' = "index_records_events"
    /\ UNCHANGED <<network, config, chain, relay, blockchain, records_events, start_height,
                   delivered, scanned, transport_errors, initialize_call, schema, objects,
                   record_data, sent_records, authored, details_call, new_call, tx_call>>

NextDbError ==
    \/ Next
    \/ IndexCreateEventsDbError

SpecDbError == Init /\ [][NextDbError]_vars

\* C34: when a run of the create indexer has ended, a run that a database
\* error cut short between save_names and save_event included, every
\* name_nsid row has a create_events row with its nsid, name and pubkey.
C34_NameIndexMatchesCreateTable ==
    pc = "index_records_events" =>
        \A r \in name_nsid :
            \E c \in create_events :
                c.nsid = r.nsid /\ c.name = r.name /\ c.pubkey = r.pubkey


(***************************************************************************)
(* Building the unsigned transaction: create_unsigned_tx of                *)
(* subcommands/name/mod.rs and create_new_tx of                            *)
(* subcommands/create_new_tx.rs.  Amounts and fees are u64 in the code;    *)
(* here they are unsigned integers of AmountBits bits, so that a wrapped   *)
(* subtraction is a value TLC can hold.  A funding transaction is the      *)
(* sequence of the values of its outputs; a built transaction is the       *)
(* sequence of the values of its two outputs.                              *)
(***************************************************************************)
AmountBits == 3
MaxAmount == 2
MaxFee == 3
MaxOutputs == 2
MaxVSize == 2
MaxFeeRate == 2

\* 2^64 in the code
Modulus == 2^AmountBits

\* what client.get_raw_transaction may return
FundingTxs == UNION {[1..n -> 0..MaxAmount] : n \in 1..MaxOutputs}

\* name/mod.rs 62-98.  tx.output[args.vout as usize] is a plain index: it
\* panics when the output does not exist.  checked_sub gives the error when
\* the fee is over the value.
create_unsigned_tx(tx, vout, fee) ==
    IF vout >= Len(tx)
    THEN [status |-> "panic", tx |-> NULL]
    ELSE LET value == tx[vout + 1]
         IN  IF fee > value
             THEN [status |-> "error", tx |-> NULL]
             ELSE [status |-> "ok", tx |-> Some([output |-> <<value - fee, 0>>])]

\* create_new_tx.rs 39-75.  tx.output.get(vout) gives the error "Invalid
\* output" when the output does not exist.  The fee is
\* (new_tx.vsize() * fee_rate) as u64 and is taken off with `-=`: with
\* overflow checks (the default of a debug build) an overflowing
\* multiplication or subtraction panics; without them (the default of a
\* release build) it wraps and the transaction is printed.
create_new_tx(tx, vout, vsize, fee_rate, overflow_checks) ==
    IF vout >= Len(tx)
    THEN [status |-> "error", tx |-> NULL]
    ELSE LET value == tx[vout + 1]
             product == vsize * fee_rate
             fee == product % Modulus
         IN  IF overflow_checks /\ (product >= Modulus \/ fee > value)
             THEN [status |-> "panic", tx |-> NULL]
             ELSE [status |-> "ok",
                   tx |-> Some([output |-> <<(value - fee) % Modulus, 0>>])]

\* `name new` reaches create_unsigned_tx with the funding transaction the
\* node returned and the vout and fee of the command line
UnsignedTxStart(tx, vout, fee) ==
    /\ tx_call.state = "idle"
    /\ tx_call' = [state |-> "create_unsigned_tx", funding |-> tx, vout |-> vout,
                   fee |-> fee]
    /\ UNCHANGED <<network, config, chain, relay, blockchain, name_nsid, create_events,
                   records_events, pc, start_height, early, first_create, delivered,
                   scanned, transport_errors, initialize_call, schema, objects,
                   record_data, sent_records, authored, details_call, new_call>>

\* create_unsigned_tx(config, &args.txinfo, nsid, kind).await
UnsignedTxBuild ==
    /\ tx_call.state = "create_unsigned_tx"
    /\ tx_call' = [state |-> "finished", funding |-> tx_call.funding,
                   vout |-> tx_call.vout, fee |-> tx_call.fee,
                   result |-> create_unsigned_tx(tx_call.funding, tx_call.vout,
                                                 tx_call.fee)]
    /\ UNCHANGED <<network, config, chain, relay, blockchain, name_nsid, create_events,
                   records_events, pc, start_height, early, first_create, delivered,
                   scanned, transport_errors, initialize_call, schema, objects,
                   record_data, sent_records, authored, details_call, new_call>>

\* create_new_tx is called: lines 24-40, up to the funding transaction the
\* node returned; the binary was built with or without overflow checks
NewTxStart(tx, vout, vsize, fee_rate, overflow_checks) ==
    /\ tx_call.state = "idle"
    /\ tx_call' = [state |-> "create_new_tx", funding |-> tx, vout |-> vout,
                   vsize |-> vsize, fee_rate |-> fee_rate,
                   overflow_checks |-> overflow_checks]
    /\ UNCHANGED <<network, config, chain, relay, blockchain, name_nsid, create_events,
                   records_events, pc, start_height, early, first_create, delivered,
                   scanned, transport_errors, initialize_call, schema, objects,
                   record_data, sent_records, authored, details_call, new_call>>

\* lines 41-84 of create_new_tx
NewTxBuild ==
    /\ tx_call.state = "create_new_tx"
    /\ tx_call' = [state |-> "finished", funding |-> tx_call.funding,
                   vout |-> tx_call.vout,
                   fee |-> (tx_call.vsize * tx_call.fee_rate) % Modulus,
                   result |-> create_new_tx(tx_call.funding, tx_call.vout,
                                            tx_call.vsize, tx_call.fee_rate,
                                            tx_call.overflow_checks)]
    /\ UNCHANGED <<network, config, chain, relay, blockchain, name_nsid, create_events,
                   records_events, pc, start_height, early, first_create, delivered,
                   scanned, transport_errors, initialize_call, schema, objects,
                   record_data, sent_records, authored, details_call, new_call>>

NextTx ==
    \/ \E tx \in FundingTxs, vout \in 0..MaxOutputs, fee \in 0..MaxFee :
           UnsignedTxStart(tx, vout, fee)
    \/ UnsignedTxBuild
    \/ \E tx \in FundingTxs, vout \in 0..MaxOutputs, vsize \in 1..MaxVSize,
          fee_rate \in 0..MaxFeeRate, overflow_checks \in BOOLEAN :
           NewTxStart(tx, vout, vsize, fee_rate, overflow_checks)
    \/ NewTxBuild

SpecTx == Init /\ [][NextTx]_vars

\* C35: building the unsigned transaction never underflows the output
\* amount.  When the command has finished, with v the value of the output
\* vout of the funding transaction and f the fee: if the output exists and
\* f <= v the command gave a transaction whose first output has the value
\* v - f; if the output does not exist or f > v the command returned an
\* error and gave no transaction.  This holds for create_unsigned_tx and
\* for create_new_tx.
C35_UnsignedTxNeverUnderflows ==
    tx_call.state = "finished" =>
        IF tx_call.vout < Len(tx_call.funding)
           /\ tx_call.fee <= tx_call.funding[tx_call.vout + 1]
        THEN /\ tx_call.result.status = "ok"
             /\ \E t \in tx_call.result.tx :
                   t.output[1] = tx_call.funding[tx_call.vout + 1] - tx_call.fee
        ELSE /\ tx_call.result.status = "error"
             /\ tx_call.result.tx = NULL

====
